---- MODULE Spec2Model ----
(***************************************************************************)
(* Hybrid localStorage + cloud progress sync of the business startup guide *)
(* (EnhancedStateManager, SyncManager, AuthManager, SupabaseClient and the *)
(* application shell that wires them).                                     *)
(*                                                                         *)
(* JavaScript runs one callback at a time.  Every action below is one      *)
(* macrotask: an event handler, a timer callback or the continuation of an *)
(* awaited remote call, run up to the point where it next awaits a remote  *)
(* call or the user.  An await of a promise that is already settled only   *)
(* yields to the microtask queue, where no event, timer or response can    *)
(* interleave; such awaits are run through inside the same action.         *)
(***************************************************************************)
EXTENDS Integers, Sequences, FiniteSets, Bags, TLC

\* ------------------------------------------------------------------ bounds
MaxEvents == 2          \* outside events after start-up: auth events, user
                        \* requests, online/offline, failed calls, clock steps
MaxTasks == 2           \* remote calls and dialogs pending at the same time
StartTime == 1000       \* Date.now() when the page loads
MaxTime == 6000         \* the clock stops here
MaxOutageTime == 16000  \* the clock stops here during an outage

\* ------------------------------------------------------- program constants
maxRetries == 3
retryDelay == 5000
DefaultDebounce == 2000
TaskDebounce == 500
FiveMinutes == 300000
NullTime == 0           \* null / undefined timestamp and timer handle (falsy)

\* --------------------------------------------------------------- data model
Keys == {"a", "b"}
StepKeys == {"a"}      \* the steps the user toggles
EmptyMap == [k \in {} |-> TRUE]

\* { ...base, ...over } on completion maps
Spread(base, over) ==
  [k \in (DOMAIN base) \cup (DOMAIN over) |->
     IF k \in DOMAIN over THEN over[k] ELSE base[k]]

\* obj[key] = value on a completion map
SetKey(map, key, value) == Spread(map, [k \in {key} |-> value])

ContentFields == {"province", "industry", "hiring", "revenue", "completed"}

Content(s) == [f \in ContentFields |-> s[f]]

DefaultContent ==
  [province |-> "", industry |-> "general", hiring |-> "no",
   revenue |-> "gte30", completed |-> EmptyMap]

DefaultMeta(t) ==
  [lastModified |-> t, version |-> 1, syncedAt |-> NullTime,
   hasLocalChanges |-> FALSE]

loadDefaultState(t) ==
  [province |-> "", industry |-> "general", hiring |-> "no",
   revenue |-> "gte30", completed |-> EmptyMap, meta |-> DefaultMeta(t)]

\* localStorage: the six items are written and removed together; hasMeta is
\* FALSE for items left by the first version of the guide, which wrote no
\* '_state_meta'.  completedParses is FALSE when the 'completed' item is text
\* JSON.parse rejects; completed is then of no account.
EmptyStorage ==
  [present |-> FALSE, hasMeta |-> FALSE, province |-> "", industry |-> "",
   hiring |-> "", revenue |-> "", completed |-> EmptyMap,
   completedParses |-> TRUE, meta |-> DefaultMeta(NullTime)]

\* a || b on strings
OrElse(a, b) == IF a = "" THEN b ELSE a

loadLocalState(st, t) ==
  IF ~st.present \/ ~st.completedParses THEN loadDefaultState(t)
  ELSE [province |-> OrElse(st.province, ""),
        industry |-> OrElse(st.industry, "general"),
        hiring |-> OrElse(st.hiring, "no"),
        revenue |-> OrElse(st.revenue, "gte30"),
        completed |-> st.completed,
        meta |-> IF st.hasMeta THEN st.meta ELSE DefaultMeta(t)]

hasProgressData(s) ==
  \/ s.province # ""
  \/ DOMAIN s.completed # {}
  \/ s.industry # "general"
  \/ s.hiring # "no"
  \/ s.revenue # "gte30"

\* the state without its metadata
getState(s) == [f \in (DOMAIN s) \ {"meta"} |-> s[f]]

\* localState._meta?.lastModified
MetaLastModified(ls) ==
  IF "meta" \in DOMAIN ls THEN ls.meta.lastModified ELSE NullTime

\* getMostRecent with ties going to the local value
getMostRecentTiesLocal(localValue, cloudValue, localTime, cloudTime) ==
  IF localTime = NullTime \/ cloudTime = NullTime
    THEN OrElse(localValue, cloudValue)
    ELSE IF localTime >= cloudTime THEN localValue ELSE cloudValue

getMostRecent(localValue, cloudValue, localTime, cloudTime) ==
  IF localTime = NullTime \/ cloudTime = NullTime
    THEN OrElse(localValue, cloudValue)
    ELSE IF localTime > cloudTime THEN localValue ELSE cloudValue

\* mergedData of mergeLocalAndCloudData for the local state s and the row
mergedData(s, row) ==
  LET localState == getState(s)
      lt == MetaLastModified(localState)
      ct == row.updated_at
  IN [province |-> getMostRecent(localState.province, row.province, lt, ct),
      industry |-> getMostRecent(localState.industry, row.industry, lt, ct),
      hiring |-> getMostRecent(localState.hiring, row.hiring, lt, ct),
      revenue |-> getMostRecent(localState.revenue, row.revenue, lt, ct),
      completed |-> Spread(row.completed, localState.completed)]

\* ------------------------------------------------------------------- state
VARIABLES
  phase,              \* "created" | "init" (start-up download pending) | "ready"
  state,              \* EnhancedStateManager.state
  storage,            \* localStorage
  syncInProgress,     \* EnhancedStateManager.syncInProgress
  pendingChanges,     \* EnhancedStateManager.pendingChanges
  syncTimeout,        \* EnhancedStateManager.syncTimeout (timer id)
  lastSyncTime,       \* EnhancedStateManager.lastSyncTime
  currentSyncStatus,  \* EnhancedStateManager.currentSyncStatus
  isAuthenticated,    \* AuthManager.isAuthenticated (currentUser is set with it)
  isOnline,           \* SyncManager.isOnline
  retryAttempts,      \* SyncManager.retryAttempts
  notice,             \* what showNotification printed in the last callback
  timers,             \* pending setTimeout callbacks
  tasks,              \* pending remote calls and open migration dialogs (a bag)
  remote,             \* the user's row of user_progress
  progress_history,   \* the rows added to progress_history since the start
  now,                \* Date.now()
  changeSeq,          \* number of setter calls so far
  lastMutation,       \* the last setter call: field, key, value, time
  syncedSeq,          \* changeSeq as of the last upload or download that
                      \* brought local and remote together
  anyFailed,          \* some remote call has failed
  mutatedDuringUpload,\* some setter ran while an upload was in flight
  signIn,             \* the last SIGNED_IN: the local content then, its event
                      \* number, whether its migration dialog was shown, the
                      \* button chosen in it
  retriesIssued,      \* uploads the retry callbacks have issued since the
                      \* last user or browser event and the last upload
                      \* that succeeded
  events              \* outside events so far

progVars ==
  <<phase, state, storage, syncInProgress, pendingChanges, syncTimeout,
    lastSyncTime, currentSyncStatus, isAuthenticated, isOnline, retryAttempts,
    notice, timers, tasks>>

vars ==
  <<phase, state, storage, syncInProgress, pendingChanges, syncTimeout,
    lastSyncTime, currentSyncStatus, isAuthenticated, isOnline, retryAttempts,
    notice, timers, tasks, remote, progress_history, now, changeSeq,
    lastMutation, syncedSeq,
    anyFailed, mutatedDuringUpload, signIn, retriesIssued, events>>

\* the history the properties refer to; the program cannot read it
histVars ==
  <<changeSeq, lastMutation, syncedSeq, anyFailed, mutatedDuringUpload, signIn,
    retriesIssued>>

NoRow ==
  [exists |-> FALSE, province |-> "", industry |-> "", hiring |-> "",
   revenue |-> "", completed |-> EmptyMap, updated_at |-> NullTime,
   version |-> 0]

NoResult == [ok |-> FALSE, row |-> NoRow]

\* The program's variables at the start of a callback, as one record that the
\* operators below transform; now and changeSeq are only read.
M ==
  [phase |-> phase, state |-> state, storage |-> storage,
   syncInProgress |-> syncInProgress, pendingChanges |-> pendingChanges,
   syncTimeout |-> syncTimeout, lastSyncTime |-> lastSyncTime,
   currentSyncStatus |-> currentSyncStatus,
   isAuthenticated |-> isAuthenticated, isOnline |-> isOnline,
   retryAttempts |-> retryAttempts, notice |-> "none", timers |-> timers,
   tasks |-> tasks, now |-> now, changeSeq |-> changeSeq]

\* The callback ends: its effects become the next state.
Commit(m) ==
  /\ BagCardinality(m.tasks) <= MaxTasks
  /\ phase' = m.phase
  /\ state' = m.state
  /\ storage' = m.storage
  /\ syncInProgress' = m.syncInProgress
  /\ pendingChanges' = m.pendingChanges
  /\ syncTimeout' = m.syncTimeout
  /\ lastSyncTime' = m.lastSyncTime
  /\ currentSyncStatus' = m.currentSyncStatus
  /\ isAuthenticated' = m.isAuthenticated
  /\ isOnline' = m.isOnline
  /\ retryAttempts' = m.retryAttempts
  /\ notice' = m.notice
  /\ timers' = m.timers
  /\ tasks' = m.tasks

\* ------------------------------------------------------------------ timers
\* setTimeout returns an id that no pending timer and no stored handle uses.
FreshTimerId(m) ==
  LET used == {t.id : t \in m.timers} \cup {m.syncTimeout}
  IN CHOOSE i \in 1..(Cardinality(used) + 1) :
       /\ i \notin used
       /\ \A j \in 1..(i - 1) : j \in used

clearTimeout(m, id) == [m EXCEPT !.timers = {t \in m.timers : t.id # id}]

setTimeout(m, kind, delay) ==
  [m EXCEPT !.timers = m.timers \cup
     {[id |-> FreshTimerId(m), kind |-> kind, due |-> m.now + delay]}]

showNotification(m, message) == [m EXCEPT !.notice = message]

\* ------------------------------------------------------------ SyncManager
\* queueRetrySync without its test of retryAttempts against maxRetries
queueRetrySyncUnbounded(m) ==
  LET n == m.retryAttempts + 1
  IN setTimeout([m EXCEPT !.retryAttempts = n], "retry", retryDelay * n)

queueRetrySync(m) ==
  IF m.retryAttempts < maxRetries
    THEN LET n == m.retryAttempts + 1
         IN setTimeout([m EXCEPT !.retryAttempts = n], "retry", retryDelay * n)
    ELSE m

handleSyncEvent(m, status) ==
  IF status = "error" /\ m.isOnline THEN queueRetrySync(m) ELSE m

clearSyncQueue(m) == [m EXCEPT !.retryAttempts = 0]

\* --------------------------------------------------- EnhancedStateManager
\* The only sync listener is the one SyncManager.initialize adds; it calls
\* syncManager.handleSyncEvent, which the application's setupEventListeners
\* replaces by its own display-only handler once start-up is over.
notifySyncListeners(m, status) ==
  IF m.phase = "ready" THEN m ELSE handleSyncEvent(m, status)

setSyncStatus(m, status) ==
  notifySyncListeners([m EXCEPT !.currentSyncStatus = status], status)

\* scheduleSyncToCloud without the clearTimeout of the pending timer
scheduleSyncToCloudKeepOld(m, delay) ==
  LET id == FreshTimerId(m)
  IN [m EXCEPT
        !.timers = m.timers \cup
           {[id |-> id, kind |-> "debounce", due |-> m.now + delay]},
        !.syncTimeout = id]

scheduleSyncToCloud(m, delay) ==
  LET m1 == IF m.syncTimeout # NullTime THEN clearTimeout(m, m.syncTimeout)
            ELSE m
      id == FreshTimerId([m1 EXCEPT !.syncTimeout = NullTime])
  IN [m1 EXCEPT
        !.timers = m1.timers \cup
           {[id |-> id, kind |-> "debounce", due |-> m.now + delay]},
        !.syncTimeout = id]

\* persistLocal's writes without the one of the 'completed' item
StorageOfStaleCompleted(s) ==
  [present |-> TRUE, hasMeta |-> TRUE, province |-> s.province,
   industry |-> s.industry, hiring |-> s.hiring, revenue |-> s.revenue,
   completed |-> EmptyMap, completedParses |-> TRUE, meta |-> s.meta]

StorageOf(s) ==
  [present |-> TRUE, hasMeta |-> TRUE, province |-> s.province,
   industry |-> s.industry, hiring |-> s.hiring, revenue |-> s.revenue,
   completed |-> s.completed, completedParses |-> TRUE, meta |-> s.meta]

persistLocal(m) ==
  LET m1 == [m EXCEPT !.state.meta.lastModified = m.now,
                      !.state.meta.hasLocalChanges = TRUE]
      m2 == [m1 EXCEPT !.storage = StorageOf(m1.state),
                       !.pendingChanges = TRUE]
  IN scheduleSyncToCloud(m2, DefaultDebounce)

\* ------------------------------------------------------------ remote calls
\* A pending remote call: the request (payload, issue time), the server's
\* answer once it has one, and the frames that continue when it settles.
NewTask(m, op, payload, stack) ==
  [op |-> op, stage |-> "sent", payload |-> payload, seq |-> m.changeSeq,
   at |-> m.now, res |-> NoResult, stack |-> stack]

AddTask(m, t) == [m EXCEPT !.tasks = m.tasks (+) SetToBag({t})]

RemoveTask(m, t) == [m EXCEPT !.tasks = m.tasks (-) SetToBag({t})]

RECURSIVE Resume(_, _, _)

\* syncToCloud without its syncInProgress guard
SyncToCloudUnguarded(m, k) ==
  IF ~m.isAuthenticated
    THEN Resume(m, k, FALSE)
    ELSE LET m1 == setSyncStatus([m EXCEPT !.syncInProgress = TRUE], "syncing")
         IN AddTask(m1, NewTask(m1, "save", Content(m1.state), <<"stc">> \o k))

\* syncToCloud, called with the frames k that await its result
SyncToCloud(m, k) ==
  IF ~m.isAuthenticated \/ m.syncInProgress
    THEN Resume(m, k, FALSE)
    ELSE LET m1 == setSyncStatus([m EXCEPT !.syncInProgress = TRUE], "syncing")
         IN AddTask(m1, NewTask(m1, "save", Content(m1.state), <<"stc">> \o k))

\* syncToCloud after saveUserProgress settled with r, without the finally
\* block on the path through catch
SyncToCloudDoneNoFinally(m, r) ==
  IF r.ok
    THEN LET m1 == [m EXCEPT !.state.meta =
                       [lastModified |-> r.row.updated_at,
                        version |-> r.row.version,
                        syncedAt |-> m.now,
                        hasLocalChanges |-> FALSE]]
             m2 == persistLocal(m1)
             m3 == [m2 EXCEPT !.state.meta.hasLocalChanges = FALSE,
                              !.lastSyncTime = m.now,
                              !.pendingChanges = FALSE]
             m4 == notifySyncListeners(setSyncStatus(m3, "synced"), "synced")
         IN [m4 EXCEPT !.syncInProgress = FALSE]
    ELSE notifySyncListeners(setSyncStatus(m, "error"), "error")

\* syncToCloud after saveUserProgress settled with r
SyncToCloudDone(m, r) ==
  IF r.ok
    THEN LET m1 == [m EXCEPT !.state.meta =
                       [lastModified |-> r.row.updated_at,
                        version |-> r.row.version,
                        syncedAt |-> m.now,
                        hasLocalChanges |-> FALSE]]
             m2 == persistLocal(m1)
             m3 == [m2 EXCEPT !.state.meta.hasLocalChanges = FALSE,
                              !.lastSyncTime = m.now,
                              !.pendingChanges = FALSE]
             m4 == notifySyncListeners(setSyncStatus(m3, "synced"), "synced")
         IN [m4 EXCEPT !.syncInProgress = FALSE]
    ELSE LET m1 == notifySyncListeners(setSyncStatus(m, "error"), "error")
         IN [m1 EXCEPT !.syncInProgress = FALSE]

forceSyncToCloud(m, k) ==
  SyncToCloud(IF m.syncTimeout # NullTime THEN clearTimeout(m, m.syncTimeout)
              ELSE m, k)

\* syncFromCloud without its isUserAuthenticated check
SyncFromCloudNoAuth(m, k) ==
  AddTask(setSyncStatus(m, "syncing"),
          NewTask(m, "get", DefaultContent, <<"sfc">> \o k))

\* syncFromCloud, called with the frames k that await its result
SyncFromCloud(m, k) ==
  IF ~m.isAuthenticated
    THEN Resume(m, k, FALSE)
    ELSE AddTask(setSyncStatus(m, "syncing"),
                 NewTask(m, "get", DefaultContent, <<"sfc">> \o k))

\* syncFromCloud: the remote row replaces the local state
AdoptCloud(m, row) ==
  LET m1 == [m EXCEPT !.state =
                [province |-> row.province, industry |-> row.industry,
                 hiring |-> row.hiring, revenue |-> row.revenue,
                 completed |-> row.completed,
                 meta |-> [lastModified |-> row.updated_at,
                           version |-> row.version,
                           syncedAt |-> m.now,
                           hasLocalChanges |-> FALSE]]]
      m2 == persistLocal(m1)
  IN notifySyncListeners([m2 EXCEPT !.state.meta.hasLocalChanges = FALSE],
                         "synced")

CloudIsNewer(m, row) ==
  \/ row.updated_at > m.state.meta.lastModified
  \/ m.state.meta.syncedAt = NullTime

\* syncFromCloud from "this.lastSyncTime = Date.now()" to its return
SyncFromCloudTail(m) ==
  setSyncStatus([m EXCEPT !.lastSyncTime = m.now], "synced")

mergeLocalAndCloudData(m, k) ==
  IF ~m.isAuthenticated
    THEN Resume(showNotification(m, "Error merging progress data"), k, FALSE)
    ELSE AddTask(m, NewTask(m, "get", DefaultContent, <<"merge">> \o k))

useCloudData(m, k) == SyncFromCloud(m, <<"usecloud">> \o k)

uploadLocalData(m, k) == forceSyncToCloud(m, <<"uploaded">> \o k)

\* The frame at the head of k continues with r: the settled remote call for
\* "stc", "sfc" and "merge", the callee's return value for the others.
Resume(m, k, r) ==
  IF k = <<>> THEN m
  ELSE LET rest == Tail(k) IN
    CASE Head(k) = "stc" ->
           Resume(SyncToCloudDone(m, r), rest, r.ok)
      [] Head(k) = "sfc" ->
           IF ~r.ok
             THEN Resume(setSyncStatus(m, "error"), rest, FALSE)
           ELSE IF r.row.exists
             THEN Resume(SyncFromCloudTail(
                           IF CloudIsNewer(m, r.row) THEN AdoptCloud(m, r.row)
                           ELSE m), rest, TRUE)
           ELSE IF hasProgressData(m.state)
             THEN SyncToCloud(m, <<"sfc_tail">> \o rest)
           ELSE Resume(SyncFromCloudTail(m), rest, TRUE)
      [] Head(k) = "sfc_tail" ->
           Resume(SyncFromCloudTail(m), rest, TRUE)
      [] Head(k) = "hasc" ->
           IF m.state.meta.hasLocalChanges
             THEN SyncToCloud(m, rest)
             ELSE Resume(m, rest, TRUE)
      [] Head(k) = "merge" ->
           IF ~r.ok
             THEN Resume(showNotification(m, "Error merging progress data"),
                         rest, FALSE)
           ELSE IF ~r.row.exists
             THEN uploadLocalData(m, rest)
           ELSE LET md == mergedData(m.state, r.row)
                    m1 == [m EXCEPT !.state =
                             [f \in DOMAIN m.state |->
                                IF f \in DOMAIN md THEN md[f] ELSE m.state[f]]]
                IN forceSyncToCloud(m1, <<"merged">> \o rest)
      [] Head(k) = "merged" ->
           Resume(showNotification(m, "Progress merged successfully!"),
                  rest, TRUE)
      [] Head(k) = "uploaded" ->
           Resume(showNotification(m, "Local progress uploaded to cloud"),
                  rest, TRUE)
      [] Head(k) = "usecloud" ->
           Resume(showNotification(m, "Using cloud progress data"),
                  rest, TRUE)
      [] Head(k) = "retry" ->
           Resume(IF r THEN [m EXCEPT !.retryAttempts = 0]
                  ELSE IF m.retryAttempts >= maxRetries
                    THEN [showNotification(m,
                            "Sync failed after multiple attempts")
                          EXCEPT !.retryAttempts = 0]
                  ELSE m, rest, r)
      [] Head(k) = "fs1" ->
           forceSyncToCloud(m, <<"fs2">> \o rest)
      [] Head(k) = "fs2" ->
           Resume(showNotification(m, "Progress synced successfully!"),
                  rest, TRUE)
      [] Head(k) = "boot" ->
           Resume([m EXCEPT !.phase = "ready"], rest, TRUE)

\* SyncManager.handleUserSignIn; shown is FALSE when building or showing the
\* dialog throws, which the catch of handleUserSignIn only logs
handleUserSignIn(m, shown) ==
  IF hasProgressData(m.state)
    THEN IF shown
           THEN AddTask(m, [NewTask(m, "dialog", Content(m.state), <<>>)
                            EXCEPT !.stage = "open"])
           ELSE m
    ELSE SyncFromCloud(m, <<>>)

\* SyncManager.handleAuthChange
handleAuthChange(m, shown) ==
  IF m.isAuthenticated THEN handleUserSignIn(m, shown) ELSE clearSyncQueue(m)

\* handleAuthStateChange with a sign-out that drops the local state
esmHandleAuthStateChangeWiping(m) ==
  IF m.isAuthenticated THEN SyncFromCloud(m, <<"hasc">>)
  ELSE [m EXCEPT !.lastSyncTime = NullTime,
                 !.state = loadDefaultState(m.now)]

\* EnhancedStateManager.handleAuthStateChange
esmHandleAuthStateChange(m) ==
  IF m.isAuthenticated THEN SyncFromCloud(m, <<"hasc">>)
  ELSE [m EXCEPT !.lastSyncTime = NullTime]

\* AuthManager.notifyAuthStateListeners: the listeners in the order in which
\* they were added (SyncManager.initialize, EnhancedStateManager.initialize)
notifyAuthStateListeners(m, shown) ==
  esmHandleAuthStateChange(handleAuthChange(m, shown))

\* AuthManager.handleAuthStateChange
authHandleAuthStateChange(m, event, shown) ==
  notifyAuthStateListeners(
    CASE event = "SIGNED_IN" -> [m EXCEPT !.isAuthenticated = TRUE]
      [] event = "SIGNED_OUT" -> [m EXCEPT !.isAuthenticated = FALSE]
      [] OTHER -> m,
    shown)

\* ------------------------------------------------------ the remote service
\* saveUserProgress: upsert of the user's row.  An insert keeps the
\* updated_at the client sent and the default version; an update runs the
\* triggers, which stamp updated_at and bump the version when a content
\* field changed.
Upsert(row, payload, sentAt, serverNow) ==
  [exists |-> TRUE, province |-> payload.province,
   industry |-> payload.industry, hiring |-> payload.hiring,
   revenue |-> payload.revenue, completed |-> payload.completed,
   updated_at |-> IF row.exists THEN serverNow ELSE sentAt,
   version |-> IF ~row.exists THEN 1
               ELSE IF Content(row) # payload THEN row.version + 1
               ELSE row.version]

\* the trigger save_progress_history without its comparison of OLD and NEW
save_progress_historyAlways(h, old, new) ==
  Append(h, [snapshot |-> new, version |-> old.version])

\* the trigger save_progress_history, BEFORE UPDATE on user_progress: h is
\* progress_history, old the row, new the content written
save_progress_history(h, old, new) ==
  IF Content(old) # new
    THEN Append(h, [snapshot |-> new, version |-> old.version])
    ELSE h

\* progress_history after saveUserProgress wrote payload over row: an insert
\* fires no trigger
HistoryAfter(h, row, payload) ==
  IF row.exists THEN save_progress_history(h, row, payload) ELSE h

\* an event from outside the program; the model admits MaxEvents of them
Outside == events < MaxEvents /\ events' = events + 1

PendingCalls == {t \in BagToSet(tasks) : t.op # "dialog" /\ t.stage = "sent"}
SettledCalls == {t \in BagToSet(tasks) : t.stage = "done"}
OpenDialogs == {t \in BagToSet(tasks) : t.op = "dialog"}

Settle(t, res) ==
  tasks' = (tasks (-) SetToBag({t}))
           (+) SetToBag({[t EXCEPT !.stage = "done", !.res = res]})

\* the service answers a request
Serve ==
  \E t \in PendingCalls :
    /\ IF t.op = "save"
         THEN LET row == Upsert(remote, t.payload, t.at, now)
              IN /\ remote' = row
                 /\ progress_history' =
                      HistoryAfter(progress_history, remote, t.payload)
                 /\ Settle(t, [ok |-> TRUE, row |-> row])
         ELSE /\ remote' = remote
              /\ progress_history' = progress_history
              /\ Settle(t, [ok |-> TRUE, row |-> remote])
    /\ UNCHANGED <<phase, state, storage, syncInProgress, pendingChanges,
                   syncTimeout, lastSyncTime, currentSyncStatus,
                   isAuthenticated, isOnline, retryAttempts, notice, timers,
                   now, histVars, events>>

\* a request fails in transport and reaches no row
Fail ==
  \E t \in PendingCalls :
    /\ Outside
    /\ Settle(t, NoResult)
    /\ anyFailed' = TRUE
    /\ UNCHANGED <<phase, state, storage, syncInProgress, pendingChanges,
                   syncTimeout, lastSyncTime, currentSyncStatus,
                   isAuthenticated, isOnline, retryAttempts, notice, timers,
                   remote, progress_history, now, changeSeq, lastMutation, syncedSeq,
                   mutatedDuringUpload, signIn, retriesIssued>>

envVars == <<remote, progress_history, now, histVars, events>>

\* the awaited call settles and the code after the await runs
Deliver ==
  \E t \in SettledCalls :
    /\ Commit(Resume(RemoveTask(M, t), t.stack, t.res))
    /\ syncedSeq' =
         IF t.op = "save" /\ t.res.ok
           THEN (IF t.seq > syncedSeq THEN t.seq ELSE syncedSeq)
         ELSE IF /\ Head(t.stack) = "sfc" /\ t.res.ok /\ t.res.row.exists
                 /\ CloudIsNewer(M, t.res.row)
           THEN changeSeq
         ELSE syncedSeq
    /\ retriesIssued' = IF t.op = "save" /\ t.res.ok THEN 0 ELSE retriesIssued
    /\ UNCHANGED <<remote, progress_history, now, changeSeq, lastMutation, anyFailed,
                   mutatedDuringUpload, signIn, events>>

\* ------------------------------------------------------------------ start-up
\* EnhancedBusinessGuideApp.initialize: the auth manager reads the session,
\* the sync manager and the state manager add their listeners, the state is
\* loaded from localStorage and, with a session, the first download starts;
\* setupEventListeners runs when that download has returned.
AppInitialize ==
  \E session \in BOOLEAN :
    /\ phase = "created"
    /\ LET m1 == [M EXCEPT !.isAuthenticated = session,
                           !.state = loadLocalState(storage, now)]
       IN IF session
            THEN Commit(SyncFromCloud([m1 EXCEPT !.phase = "init"], <<"boot">>))
            ELSE Commit([m1 EXCEPT !.phase = "ready"])
    /\ UNCHANGED envVars

AuthEvents == {"SIGNED_IN", "SIGNED_OUT", "TOKEN_REFRESHED"}

\* supabase delivers an auth event to AuthManager.handleAuthStateChange;
\* shown tells whether a migration dialog could be put on the page
AuthEventOf(event, shown) ==
    /\ phase # "created"
    /\ Outside
    /\ event # "SIGNED_IN" => isAuthenticated
    /\ (event = "SIGNED_OUT" \/ ~hasProgressData(state)) => shown
    /\ Commit(authHandleAuthStateChange(M, event, shown))
    /\ signIn' = IF event = "SIGNED_IN"
                   THEN [content |-> Content(state), event |-> events + 1,
                         choice |-> "none",
                         dialog |-> IF ~hasProgressData(state) THEN "none"
                                    ELSE IF shown THEN "shown" ELSE "failed"]
                   ELSE signIn
    /\ retriesIssued' = 0
    /\ UNCHANGED <<remote, progress_history, now, changeSeq, lastMutation,
                   syncedSeq, anyFailed, mutatedDuringUpload>>

AuthEvent ==
  \E event \in AuthEvents, shown \in BOOLEAN : AuthEventOf(event, shown)

\* the user clicks one of the three buttons of a migration dialog
MigrationChoice ==
  \E t \in OpenDialogs, choice \in {"merge", "cloud", "local"} :
    /\ LET m1 == RemoveTask(M, t)
       IN CASE choice = "merge" -> Commit(mergeLocalAndCloudData(m1, <<>>))
            [] choice = "cloud" -> Commit(useCloudData(m1, <<>>))
            [] choice = "local" -> Commit(uploadLocalData(m1, <<>>))
    /\ signIn' = [signIn EXCEPT !.choice = choice]
    /\ retriesIssued' = 0
    /\ UNCHANGED <<remote, progress_history, now, changeSeq, lastMutation, syncedSeq, anyFailed,
                   mutatedDuringUpload, events>>

\* ------------------------------------------------------------------- setters
Provinces == {"QC"}

Mutated(field, key, value) ==
  /\ phase = "ready"
  /\ Outside
  /\ changeSeq' = changeSeq + 1
  /\ lastMutation' = [field |-> field, key |-> key, value |-> value,
                      at |-> now]
  /\ mutatedDuringUpload' =
       (mutatedDuringUpload \/ \E t \in BagToSet(tasks) : t.op = "save")
  /\ retriesIssued' = 0
  /\ UNCHANGED <<remote, progress_history, now, syncedSeq, anyFailed, signIn>>

setProvince ==
  \E v \in Provinces :
    /\ Mutated("province", "", v)
    /\ Commit(persistLocal([M EXCEPT !.state.province = v]))

setIndustry ==
  \E v \in {"tech"} :
    /\ Mutated("industry", "", v)
    /\ Commit(persistLocal([M EXCEPT !.state.industry = v]))

setHiring ==
  \E v \in {"yes"} :
    /\ Mutated("hiring", "", v)
    /\ Commit(persistLocal([M EXCEPT !.state.hiring = v]))

setRevenue ==
  \E v \in {"lt30"} :
    /\ Mutated("revenue", "", v)
    /\ Commit(persistLocal([M EXCEPT !.state.revenue = v]))

setStepCompleted ==
  \E key \in StepKeys, completed \in BOOLEAN :
    /\ Mutated("completed", key, IF completed THEN "true" ELSE "false")
    /\ LET m1 == persistLocal([M EXCEPT !.state.completed =
                                 SetKey(state.completed, key, completed)])
       IN Commit(IF completed /\ m1.isAuthenticated
                   THEN scheduleSyncToCloud(m1, TaskDebounce)
                   ELSE m1)

\* ------------------------------------------------------ other user requests
UserOp ==
  /\ phase = "ready"
  /\ Outside
  /\ retriesIssued' = 0
  /\ UNCHANGED <<remote, progress_history, now, changeSeq, lastMutation, anyFailed,
                 mutatedDuringUpload, signIn>>

reset ==
  /\ UserOp
  /\ syncedSeq' = changeSeq
  /\ LET m1 == [M EXCEPT !.state = loadDefaultState(now),
                         !.storage = EmptyStorage]
     IN Commit(IF m1.isAuthenticated THEN SyncToCloud(m1, <<>>) ELSE m1)

\* importProgress(null); a record of this shape stands for the value null
NullPayload == [null |-> TRUE]

\* payloads the spec calls malformed: not an object, hiring outside {yes, no}
InvalidPayloads == {NullPayload, [hiring |-> "maybe"]}

ImportPayloads ==
  {[province |-> "BC"], [completed |-> [k \in {"b"} |-> TRUE]]}
    \cup InvalidPayloads

\* importData.hasOwnProperty throws on null and importProgress returns false
importProgressReturns(importData) == importData # NullPayload

\* EnhancedStateManager.importProgress
importProgress(m, importData) ==
  IF ~importProgressReturns(importData) THEN m ELSE
  LET m1 == [m EXCEPT !.state =
               [f \in DOMAIN m.state |->
                  IF f = "meta"
                    THEN [m.state.meta EXCEPT !.lastModified = m.now,
                                              !.hasLocalChanges = TRUE]
                  ELSE IF f \in DOMAIN importData THEN importData[f]
                  ELSE m.state[f]]]
      m2 == persistLocal(m1)
  IN IF m2.isAuthenticated THEN SyncToCloud(m2, <<>>) ELSE m2

\* SyncManager.importProgressData
importProgressDataOf(importData) ==
  /\ UserOp
  /\ UNCHANGED syncedSeq
  /\ IF importProgressReturns(importData)
       THEN LET m1 == showNotification(importProgress(M, importData),
                                       "Progress imported successfully!")
            IN Commit(IF m1.isAuthenticated THEN forceSyncToCloud(m1, <<>>)
                      ELSE m1)
       ELSE Commit(showNotification(importProgress(M, importData),
                                    "Failed to import progress data"))

importProgressData ==
  \E importData \in ImportPayloads : importProgressDataOf(importData)

\* SyncManager.forceSync
forceSync ==
  /\ UserOp
  /\ UNCHANGED syncedSeq
  /\ Commit(IF ~isAuthenticated
              THEN showNotification(M, "Please sign in to sync your progress")
            ELSE IF ~isOnline
              THEN showNotification(M, "No internet connection")
            ELSE SyncFromCloud(M, <<"fs1">>))

\* the page becomes visible again (visibilitychange)
handlePageVisible ==
  /\ UserOp
  /\ UNCHANGED syncedSeq
  /\ Commit(IF /\ isAuthenticated
               /\ (lastSyncTime = NullTime \/ now - lastSyncTime > FiveMinutes)
              THEN SyncFromCloud(M, <<>>)
              ELSE M)

\* the browser's online / offline events
handleOnlineStatusChange ==
  \E online \in BOOLEAN :
    /\ phase # "created"
    /\ Outside
    /\ online # isOnline
    /\ Commit([M EXCEPT !.isOnline = online])
    /\ retriesIssued' = 0
    /\ UNCHANGED <<remote, progress_history, now, changeSeq, lastMutation, syncedSeq, anyFailed,
                   mutatedDuringUpload, signIn>>

\* -------------------------------------------------------------------- timers
DueTimers(kind) == {t \in timers : t.kind = kind /\ t.due <= now}

\* the callback scheduleSyncToCloud armed
DebounceFire ==
  \E t \in DueTimers("debounce") :
    /\ LET m1 == [M EXCEPT !.timers = timers \ {t}]
       IN Commit(IF m1.isAuthenticated /\ m1.pendingChanges
                   THEN SyncToCloud(m1, <<>>) ELSE m1)
    /\ UNCHANGED envVars

\* the callback queueRetrySync armed
RetryFire ==
  \E t \in DueTimers("retry") :
    /\ Commit(forceSyncToCloud([M EXCEPT !.timers = timers \ {t}], <<"retry">>))
    /\ retriesIssued' =
         IF \E u \in BagToSet(tasks') :
              u.op = "save" /\ CopiesIn(u, tasks') > CopiesIn(u, tasks)
           THEN retriesIssued + 1 ELSE retriesIssued
    /\ UNCHANGED <<remote, progress_history, now, changeSeq, lastMutation, syncedSeq, anyFailed,
                   mutatedDuringUpload, signIn, events>>

\* time passes: by a millisecond, or up to the moment a pending timer is due
TickTo(limit) ==
  /\ \/ /\ Outside
        /\ now + 1 <= limit
        /\ now' = now + 1
     \/ /\ \E t \in timers : t.due > now /\ t.due <= limit /\ now' = t.due
        /\ events' = events
  /\ UNCHANGED <<phase, state, storage, syncInProgress, pendingChanges,
                 syncTimeout, lastSyncTime, currentSyncStatus, isAuthenticated,
                 isOnline, retryAttempts, notice, timers, tasks, remote, progress_history,
                 histVars>>

Tick == TickTo(MaxTime)

\* ------------------------------------------------------------- specification
PastLocal == StartTime - 100
OlderRemote == StartTime - 200
NewerRemote == StartTime - 50

\* what an earlier visit may have left in localStorage
InitStorages ==
  { EmptyStorage,
    StorageOf([loadDefaultState(PastLocal) EXCEPT
                 !.province = "ON",
                 !.completed = [k \in {"a"} |-> FALSE],
                 !.meta.hasLocalChanges = TRUE]),
    StorageOf([loadDefaultState(PastLocal) EXCEPT
                 !.province = "ON",
                 !.meta.syncedAt = OlderRemote,
                 !.meta.hasLocalChanges = TRUE]) }

\* the user's row as another device may have left it
InitRemotes ==
  { NoRow,
    [exists |-> TRUE, province |-> "BC", industry |-> "general",
     hiring |-> "no", revenue |-> "gte30",
     completed |-> [k \in {"a"} |-> TRUE],
     updated_at |-> OlderRemote, version |-> 1],
    [exists |-> TRUE, province |-> "BC", industry |-> "general",
     hiring |-> "no", revenue |-> "gte30",
     completed |-> [k \in {"a"} |-> TRUE],
     updated_at |-> NewerRemote, version |-> 2] }

NoMutation == [field |-> "none", key |-> "", value |-> "", at |-> NullTime]

Init ==
  /\ phase = "created"
  /\ state = loadDefaultState(StartTime)
  /\ storage \in InitStorages
  /\ syncInProgress = FALSE
  /\ pendingChanges = FALSE
  /\ syncTimeout = NullTime
  /\ lastSyncTime = NullTime
  /\ currentSyncStatus = "none"
  /\ isAuthenticated = FALSE
  /\ isOnline = TRUE
  /\ retryAttempts = 0
  /\ notice = "none"
  /\ timers = {}
  /\ tasks = EmptyBag
  /\ remote \in InitRemotes
  /\ progress_history = <<>>
  /\ now = StartTime
  /\ changeSeq = 0
  /\ lastMutation = NoMutation
  /\ syncedSeq = 0
  /\ anyFailed = FALSE
  /\ mutatedDuringUpload = FALSE
  /\ retriesIssued = 0
  /\ signIn = [content |-> DefaultContent, event |-> 0, choice |-> "none",
               dialog |-> "none"]
  /\ events = 0

Next ==
  \/ AppInitialize
  \/ AuthEvent
  \/ MigrationChoice
  \/ setProvince
  \/ setIndustry
  \/ setHiring
  \/ setRevenue
  \/ setStepCompleted
  \/ reset
  \/ importProgressData
  \/ forceSync
  \/ handlePageVisible
  \/ handleOnlineStatusChange
  \/ DebounceFire
  \/ RetryFire
  \/ Serve
  \/ Fail
  \/ Deliver
  \/ Tick

Spec == Init /\ [][Next]_vars

\* ---------------------------------------------------------------- an outage
\* the service is unreachable: every request is rejected
ServiceDown ==
  \E t \in PendingCalls :
    /\ Settle(t, NoResult)
    /\ anyFailed' = TRUE
    /\ UNCHANGED <<phase, state, storage, syncInProgress, pendingChanges,
                   syncTimeout, lastSyncTime, currentSyncStatus,
                   isAuthenticated, isOnline, retryAttempts, notice, timers,
                   remote, progress_history, now, changeSeq, lastMutation, syncedSeq,
                   mutatedDuringUpload, signIn, retriesIssued, events>>

TickOutage == TickTo(MaxOutageTime)

NextOutage ==
  \/ AppInitialize
  \/ AuthEvent
  \/ MigrationChoice
  \/ setProvince
  \/ setIndustry
  \/ setHiring
  \/ setRevenue
  \/ setStepCompleted
  \/ reset
  \/ importProgressData
  \/ forceSync
  \/ handlePageVisible
  \/ handleOnlineStatusChange
  \/ DebounceFire
  \/ RetryFire
  \/ ServiceDown
  \/ Deliver
  \/ TickOutage

\* no request is served, so one remote row stands for all of them
InitOutage == Init /\ remote = NoRow

SpecOutage == InitOutage /\ [][NextOutage]_vars

\* ------------------------------------------- the request as it is sent
\* Serve above is the service the program is written for: an upsert keyed by
\* the user.  saveUserProgress sends { user_id, ...progressData, updated_at }
\* with no id and names no conflict column, so the conflict target of the
\* upsert is the primary key id, which gets a fresh default: the statement is
\* an INSERT, and with a row of the user present UNIQUE(user_id) rejects it.
ServeByPrimaryKey ==
  \E t \in PendingCalls :
    /\ IF t.op = "save"
         THEN IF remote.exists
                THEN /\ remote' = remote
                     /\ Settle(t, NoResult)
                     /\ anyFailed' = TRUE
                ELSE LET row == Upsert(remote, t.payload, t.at, now)
                     IN /\ remote' = row
                        /\ Settle(t, [ok |-> TRUE, row |-> row])
                        /\ anyFailed' = anyFailed
         ELSE /\ remote' = remote
              /\ Settle(t, [ok |-> TRUE, row |-> remote])
              /\ anyFailed' = anyFailed
    /\ progress_history' = progress_history
    /\ UNCHANGED <<phase, state, storage, syncInProgress, pendingChanges,
                   syncTimeout, lastSyncTime, currentSyncStatus,
                   isAuthenticated, isOnline, retryAttempts, notice, timers,
                   now, changeSeq, lastMutation, syncedSeq,
                   mutatedDuringUpload, signIn, retriesIssued, events>>

\* the program with that service and a network that never fails
NextByPrimaryKey ==
  \/ AppInitialize
  \/ AuthEvent
  \/ MigrationChoice
  \/ setProvince
  \/ setIndustry
  \/ setHiring
  \/ setRevenue
  \/ setStepCompleted
  \/ reset
  \/ importProgressData
  \/ forceSync
  \/ handlePageVisible
  \/ handleOnlineStatusChange
  \/ DebounceFire
  \/ RetryFire
  \/ ServeByPrimaryKey
  \/ Deliver
  \/ Tick

SpecByPrimaryKey == Init /\ [][NextByPrimaryKey]_vars

\* ------------------------------------------------------------ page loads
\* localStorage as any earlier visit, another script or the user may have
\* left it: each item missing ("") or set, the completion map well-formed or not
LoadStorages ==
  { [present |-> TRUE, hasMeta |-> h, province |-> p, industry |-> i,
     hiring |-> hi, revenue |-> r, completed |-> c.map,
     completedParses |-> c.parses,
     meta |-> [DefaultMeta(PastLocal) EXCEPT !.hasLocalChanges = TRUE]] :
      h \in BOOLEAN, p \in {"", "QC"}, i \in {"", "tech"},
      hi \in {"", "yes"}, r \in {"", "lt30"},
      c \in { [map |-> EmptyMap, parses |-> TRUE],
              [map |-> [k \in {"a"} |-> TRUE], parses |-> TRUE],
              [map |-> EmptyMap, parses |-> FALSE] } }

InitLoad ==
  /\ phase = "created"
  /\ state = loadDefaultState(StartTime)
  /\ storage \in LoadStorages
  /\ syncInProgress = FALSE
  /\ pendingChanges = FALSE
  /\ syncTimeout = NullTime
  /\ lastSyncTime = NullTime
  /\ currentSyncStatus = "none"
  /\ isAuthenticated = FALSE
  /\ isOnline = TRUE
  /\ retryAttempts = 0
  /\ notice = "none"
  /\ timers = {}
  /\ tasks = EmptyBag
  /\ remote = NoRow
  /\ progress_history = <<>>
  /\ now = StartTime
  /\ changeSeq = 0
  /\ lastMutation = NoMutation
  /\ syncedSeq = 0
  /\ anyFailed = FALSE
  /\ mutatedDuringUpload = FALSE
  /\ retriesIssued = 0
  /\ signIn = [content |-> DefaultContent, event |-> 0, choice |-> "none",
               dialog |-> "none"]
  /\ events = 0

\* the page loads, with or without a session, while the service is unreachable
NextLoad ==
  \/ AppInitialize
  \/ ServiceDown
  \/ Deliver

SpecLoad == InitLoad /\ [][NextLoad]_vars

\* ---------------------------------------------------------------- properties
SaveTasks == {t \in BagToSet(tasks) : t.op = "save"}

\* saveUserProgress calls that have not returned to syncToCloud
UploadsInFlight == BagCardinality([t \in SaveTasks |-> tasks[t]])

DialogCount == BagCardinality([t \in OpenDialogs |-> tasks[t]])

\* no call, dialog or timer is pending: nothing happens until an outside event
Quiescent == tasks = EmptyBag /\ timers = {}

\* this step is the continuation of the settled call t
Delivered(t) == CopiesIn(t, tasks') < CopiesIn(t, tasks)

\* s holds the value of the last setter call
MutationHeld(s) ==
  CASE lastMutation.field = "province" -> s.province = lastMutation.value
    [] lastMutation.field = "industry" -> s.industry = lastMutation.value
    [] lastMutation.field = "hiring" -> s.hiring = lastMutation.value
    [] lastMutation.field = "revenue" -> s.revenue = lastMutation.value
    [] lastMutation.field = "completed" ->
         /\ lastMutation.key \in DOMAIN s.completed
         /\ s.completed[lastMutation.key] = (lastMutation.value = "true")
    [] OTHER -> TRUE

\* C1: when a setter ran while an upload was in flight, the user is signed
\* in and no remote call failed, no second upload runs beside the first, and
\* once nothing is pending any more the remote row's content fields equal the
\* local content fields (the follow-up upload carried the mutation).
C1_FollowUpUpload ==
  (mutatedDuringUpload /\ ~anyFailed /\ isAuthenticated) =>
    /\ UploadsInFlight <= 1
    /\ Quiescent => (remote.exists /\ Content(remote) = Content(state))

\* C2: a setter call made while syncFromCloud awaits the remote row is not
\* lost: when the download returns, the state in memory and the stored state
\* still hold the value the setter wrote.
C2_MutationSurvivesDownload ==
  [][\A t \in SettledCalls :
       (/\ Delivered(t)
        /\ Head(t.stack) = "sfc"
        /\ t.seq < changeSeq
        /\ MutationHeld(state) /\ MutationHeld(storage))
       => (MutationHeld(state') /\ MutationHeld(storage'))]_vars

\* C3: in every reachable state at most one saveUserProgress call is in
\* flight, whichever of the debounce timer, forceSyncToCloud, reset, import,
\* sign-in handling, migration choice and retry timer asked for the upload.
C3_OneUploadInFlight == UploadsInFlight <= 1

\* C3 witness: an upload is in flight and the use-local choice, which asked
\* for another one meanwhile, has returned without starting it
C3_Witness ==
  /\ notice = "Local progress uploaded to cloud"
  /\ \E t \in SaveTasks : \A i \in DOMAIN t.stack : t.stack[i] # "uploaded"

\* C4: whenever a setter changed a content field and neither a successful
\* upload carried that change nor a download replaced the local state since,
\* hasLocalChanges is true.
C4_HasLocalChanges ==
  (phase = "ready" /\ changeSeq > syncedSeq) => state.meta.hasLocalChanges

\* C5: after a SIGNED_IN with meaningful local data and the use-local choice,
\* once nothing is pending, the remote row holds the local content as it was
\* when the sign-in arrived, and the local state still holds it (the remote
\* values were not adopted).
C5_UseLocal ==
  (/\ signIn.choice = "local"
   /\ events = signIn.event
   /\ Quiescent)
  => (/\ remote.exists
      /\ Content(remote) = signIn.content
      /\ Content(state) = signIn.content)

\* C6: merge resolves province, industry, hiring and revenue by timestamp:
\* the remote value when the row's updated_at is greater than the local
\* lastModified, the local value when the local lastModified is greater.
C6_MergeByTimestamp ==
  [][\A t \in SettledCalls :
       (Delivered(t) /\ Head(t.stack) = "merge" /\ t.res.ok /\ t.res.row.exists)
       => \A f \in {"province", "industry", "hiring", "revenue"} :
            /\ t.res.row.updated_at > state.meta.lastModified
                 => state'[f] = t.res.row[f]
            /\ state.meta.lastModified > t.res.row.updated_at
                 => state'[f] = state[f]]_vars

\* C7: the merged completion map has the keys of both maps, and a key is true
\* in it exactly when the local or the remote map has true for it.
C7_CompletionUnion ==
  [][\A t \in SettledCalls :
       (Delivered(t) /\ Head(t.stack) = "merge" /\ t.res.ok /\ t.res.row.exists)
       => LET l == state.completed
              c == t.res.row.completed
              mg == state'.completed
          IN /\ DOMAIN mg = (DOMAIN l) \cup (DOMAIN c)
             /\ \A k \in DOMAIN mg :
                  mg[k] = ((k \in DOMAIN l /\ l[k]) \/ (k \in DOMAIN c /\ c[k]))
    ]_vars

\* C8: when merge has completed, with nothing from outside (no failed call,
\* no user request, no auth event) since the sign-in, the merged record is the
\* content of the remote row, of the state in memory and of the stored state,
\* also when another upload was in flight at merge's force-upload.
C8_MergeResult ==
  (/\ notice = "Progress merged successfully!"
   /\ events = signIn.event
   /\ isAuthenticated)
  => (/\ remote.exists
      /\ Content(remote) = Content(state)
      /\ Content(storage) = Content(state))

\* C9: when use-cloud has fetched an existing remote row, the local content
\* fields equal that row's content fields, whatever lastModified, updated_at
\* and syncedAt are.
C9_UseCloud ==
  [][\A t \in SettledCalls :
       (/\ Delivered(t)
        /\ t.stack = <<"sfc", "usecloud">>
        /\ t.res.ok /\ t.res.row.exists)
       => Content(state') = Content(t.res.row)]_vars

\* C10: a migration dialog opens only in the step of a SIGNED_IN event, one
\* per event, and it does open when that event finds meaningful local data
\* (and showing it does not fail); no other auth event and no start-up opens
\* one.
C10_DialogOncePerSignIn ==
  [][/\ DialogCount' > DialogCount
          => (/\ events' = events + 1
              /\ signIn'.event = events'
              /\ DialogCount' = DialogCount + 1)
     /\ (events' = events + 1 /\ signIn'.event = events'
         /\ signIn'.dialog = "shown")
          => DialogCount' = DialogCount + 1]_vars

\* this step is a SIGNED_IN event
SignedInStep == events' = events + 1 /\ signIn'.event = events'

\* this step issues a getUserProgress call whose continuation is frame
IssuesGet(frame) ==
  \E t \in BagToSet(tasks') :
    /\ t.op = "get" /\ Head(t.stack) = frame
    /\ CopiesIn(t, tasks') > CopiesIn(t, tasks)

\* C11: when the migration dialog of a SIGNED_IN with meaningful local data
\* cannot be presented, the sign-in handling performs the merge strategy
\* (it fetches the remote row for mergeLocalAndCloudData).
C11_DialogFailureMerges ==
  [][(SignedInStep /\ signIn'.dialog = "failed") => IssuesGet("merge")]_vars

\* this step issues a saveUserProgress call
IssuesSave ==
  \E t \in BagToSet(tasks') :
    t.op = "save" /\ CopiesIn(t, tasks') > CopiesIn(t, tasks)

\* C12: when the download that EnhancedStateManager starts on SIGNED_IN
\* returns an existing row (the user still signed in): if the row's updated_at is greater than the local
\* lastModified, or the local state was never synced, the local content,
\* lastModified and version become the row's and hasLocalChanges becomes
\* false; otherwise the local content is unchanged and an upload starts
\* exactly when hasLocalChanges is true.
C12_SignInDownload ==
  [][\A t \in SettledCalls :
       (/\ Delivered(t)
        /\ t.stack = <<"sfc", "hasc">>
        /\ t.res.ok /\ t.res.row.exists
        /\ isAuthenticated)
       => IF \/ t.res.row.updated_at > state.meta.lastModified
             \/ state.meta.syncedAt = NullTime
            THEN /\ Content(state') = Content(t.res.row)
                 /\ state'.meta.lastModified = t.res.row.updated_at
                 /\ state'.meta.version = t.res.row.version
                 /\ ~state'.meta.hasLocalChanges
            ELSE /\ Content(state') = Content(state)
                 /\ state.meta.hasLocalChanges <=> IssuesSave]_vars

\* s has a non-default field or a completed step
Meaningful(s) ==
  \/ s.province # ""
  \/ s.industry # "general"
  \/ s.hiring # "no"
  \/ s.revenue # "gte30"
  \/ \E k \in DOMAIN s.completed : s.completed[k]

\* this step issues a saveUserProgress call that carries content c
IssuesSaveOf(c) ==
  \E t \in BagToSet(tasks') :
    /\ t.op = "save" /\ t.payload = c
    /\ CopiesIn(t, tasks') > CopiesIn(t, tasks)

\* C13: when a download (whose caller does not upload by itself) finds no
\* remote row, with the user signed in and no upload in flight, an upload of
\* the local content is issued exactly when the local record has a
\* non-default field or a completed step; otherwise the cycle ends in synced.
C13_FirstTimeUpload ==
  [][\A t \in SettledCalls :
       (/\ Delivered(t)
        /\ t.stack \in {<<"sfc">>, <<"sfc", "boot">>, <<"sfc", "usecloud">>}
        /\ t.res.ok /\ ~t.res.row.exists
        /\ isAuthenticated /\ ~syncInProgress)
       => /\ IssuesSave <=> Meaningful(state)
          /\ IssuesSave => IssuesSaveOf(Content(state))
          /\ ~Meaningful(state) => currentSyncStatus' = "synced"]_vars

DebounceTimers == {t \in timers : t.kind = "debounce"}

\* this step is the callback of a debounce timer
DebounceFired ==
  /\ \E t \in DebounceTimers : t.due <= now /\ timers' = timers \ {t}
  /\ \A u \in BagToSet(tasks) : CopiesIn(u, tasks') >= CopiesIn(u, tasks)
  /\ events' = events

\* the delay the last setter call asked for
WindowOfLastMutation ==
  IF lastMutation.field = "completed" /\ lastMutation.value = "true"
    THEN TaskDebounce ELSE DefaultDebounce

\* start-up found a session and every outside event since was a setter call
OnlyMutations == changeSeq > 0 /\ changeSeq = events /\ isAuthenticated

MutationStep == changeSeq' = changeSeq + 1

\* C15: the debounce window applied to a setter call of a signed-in user is
\* 500 ms for setStepCompleted, with true or with false, and 2000 ms for
\* setProvince, setIndustry, setHiring and setRevenue.
C15_DebounceWindow ==
  [][(MutationStep /\ isAuthenticated)
       => \E t \in timers' :
            /\ t.kind = "debounce"
            /\ t.due = now + (IF lastMutation'.field = "completed"
                                THEN TaskDebounce ELSE DefaultDebounce)]_vars

\* C16: retry exhaustion.  While the service rejects every request, the retry
\* callbacks issue at most 3 uploads after the last user or browser event;
\* once the third of them has failed and no timer is due, no timer is pending
\* at all, so no further upload is issued, and the sync status is error.
C16_RetryExhaustion ==
  /\ retriesIssued <= maxRetries
  /\ (/\ retriesIssued = maxRetries /\ isAuthenticated /\ isOnline
      /\ tasks = EmptyBag
      /\ DueTimers("retry") = {} /\ DueTimers("debounce") = {})
       => (timers = {} /\ currentSyncStatus = "error")

\* something is pending that can upload again without an outside event: a
\* retry timer, a debounce timer with changes to upload, or a call in flight
UploadPending(ts, pending, calls) ==
  \/ \E t \in ts : t.kind = "retry"
  \/ pending /\ \E t \in ts : t.kind = "debounce"
  \/ calls # EmptyBag

\* C17: in the assembled application (setupEventListeners has run), when an
\* upload of a signed-in, online user fails, an automatic retry follows: the
\* step that handles the failure leaves a retry timer, a debounce timer with
\* changes to upload, or a call in flight.
C17_RetryAfterFailure ==
  [][\A t \in SettledCalls :
       (/\ Delivered(t) /\ t.op = "save" /\ ~t.res.ok
        /\ phase = "ready" /\ isAuthenticated /\ isOnline)
         => UploadPending(timers', pendingChanges', tasks')]_vars

\* C18: when the remote call of a download (syncFromCloud) or of an upload
\* (syncToCloud) of a signed-in user fails, and the step that handles the
\* failure leaves no call in flight, the sync status is error after it; a
\* first-time upload nested in a download included.
C18_ErrorStatus ==
  [][\A t \in SettledCalls :
       (/\ Delivered(t) /\ ~t.res.ok /\ Head(t.stack) \in {"sfc", "stc"}
        /\ isAuthenticated /\ tasks' = EmptyBag)
         => currentSyncStatus' = "error"]_vars

\* C19: reconnect is a triggering event.  When the browser goes from offline
\* to online while the user is signed in, local changes are not uploaded and
\* the sync status is error, the step leaves an upload on its way: a call in
\* flight, a retry timer, or a debounce timer with changes to upload.
C19_ReconnectUploads ==
  [][(/\ ~isOnline /\ isOnline'
      /\ isAuthenticated /\ phase = "ready"
      /\ currentSyncStatus = "error" /\ state.meta.hasLocalChanges)
       => UploadPending(timers', pendingChanges', tasks')]_vars

\* this step issues a getUserProgress or a saveUserProgress call
IssuesCall ==
  \E t \in BagToSet(tasks') :
    /\ t.op \in {"get", "save"} /\ t.stage = "sent"
    /\ CopiesIn(t, tasks') > CopiesIn(t, tasks)

\* C20: while no user is signed in, no step issues a getUserProgress or a
\* saveUserProgress call: setter calls, debounce and retry callbacks, forceSync,
\* reset, importProgress, page-visible events, migration-dialog clicks and the
\* code that runs after a call issued earlier has settled are all local.
C20_LocalOnly ==
  [][(~isAuthenticated /\ ~isAuthenticated') => ~IssuesCall]_vars

\* C20 witness: the user signed out with the migration dialog still open and
\* then clicked "merge": the merge found no user and fetched nothing
C20_Witness ==
  /\ ~isAuthenticated /\ phase = "ready" /\ ~anyFailed
  /\ signIn.choice = "merge" /\ signIn.event < events
  /\ notice = "Error merging progress data"

\* getSyncStatus returning the stored status as it is
getSyncStatusStored(authenticated, status) ==
  status

\* EnhancedStateManager.getSyncStatus
getSyncStatus(authenticated, status) ==
  IF ~authenticated THEN "offline"
  ELSE IF status = "none" THEN "synced" ELSE status

\* this step handles a SIGNED_OUT event
SignedOutStep == isAuthenticated /\ ~isAuthenticated'

\* C21: handling SIGNED_OUT leaves the content fields, the sync metadata and
\* their copies in localStorage as they were; the last-sync time and the retry
\* count are reset, and getSyncStatus answers offline afterwards.
C21_SignOutKeepsData ==
  [][SignedOutStep
       => /\ state' = state
          /\ storage' = storage
          /\ lastSyncTime' = NullTime
          /\ retryAttempts' = 0
          /\ getSyncStatus(isAuthenticated', currentSyncStatus') = "offline"]_vars

\* C21 witness: a user who had signed in has signed out again and the local
\* progress is still there
C21_Witness ==
  /\ ~isAuthenticated /\ signIn.event > 0 /\ events > signIn.event
  /\ lastSyncTime = NullTime
  /\ Content(state) # DefaultContent
  /\ StorageOf(state) = storage

\* saveUserProgress calls pending in a bag of tasks
SavesIn(b) ==
  BagCardinality([t \in {u \in BagToSet(b) : u.op = "save"} |-> b[t]])

\* C22: reset() of a signed-in user, from any state (an upload in flight or a
\* debounce timer pending included), sets the record in memory to the
\* defaults, removes the items from localStorage and issues exactly one
\* saveUserProgress call, whose content is the default values.
C22_ResetPropagates ==
  [][(reset /\ isAuthenticated)
       => /\ Content(state') = DefaultContent
          /\ storage' = EmptyStorage
          /\ SavesIn(tasks') = SavesIn(tasks) + 1
          /\ IssuesSaveOf(DefaultContent)]_vars

\* C23: load never fails and applies the defaults field by field: with a
\* completion map that is not well-formed JSON the loaded record has an empty
\* completion map and province, industry, hiring and revenue as persisted; a
\* missing item gets its default and the others are as persisted.
C23_LoadDefaultsPerField ==
  [][AppInitialize
       => /\ state'.province = OrElse(storage.province, "")
          /\ state'.industry = OrElse(storage.industry, "general")
          /\ state'.hiring = OrElse(storage.hiring, "no")
          /\ state'.revenue = OrElse(storage.revenue, "gte30")
          /\ state'.completed = IF storage.completedParses
                                  THEN storage.completed ELSE EmptyMap]_vars

\* C24: persistence round trip.  When the page has loaded and every event
\* since has been a setter call, loading localStorage again (a page reload)
\* gives the content fields the record in memory has, with a session (and its
\* downloads and uploads going on) or without.
C24_RoundTrip ==
  (phase # "created" /\ changeSeq = events)
    => Content(loadLocalState(storage, now)) = Content(state)

\* C24 witness: two setter calls were made, the second one on the completion
\* map, and a reload would find both
C24_Witness ==
  /\ changeSeq = 2 /\ events = 2 /\ lastMutation.field = "completed"
  /\ lastMutation.value = "true"
  /\ MutationHeld(state)
  /\ Content(state).province # ""
  /\ Content(loadLocalState(storage, now)) = Content(state)

\* C25: importProgress on a malformed payload (not an object, or hiring with
\* a value other than yes and no) returns false, which importProgressData
\* reports, leaves the record in memory and localStorage as they were and
\* issues no call: nothing of the payload is applied.
C25_ImportRejectsMalformed ==
  [][\A importData \in InvalidPayloads :
       importProgressDataOf(importData)
         => /\ notice' = "Failed to import progress data"
            /\ state' = state
            /\ storage' = storage
            /\ ~IssuesCall]_vars

\* the frames of k, as a set
Frames(k) == {k[i] : i \in DOMAIN k}

\* C26: forceSync() resolves to true (and announces success) only if its
\* download and its upload completed without error: when it is called without
\* a user or offline it resolves to false, and a step that handles the failure
\* of one of its remote calls does not end in the success notice.
C26_ForceSyncResult ==
  [][/\ (forceSync /\ (~isAuthenticated \/ ~isOnline))
          => notice' \in {"Please sign in to sync your progress",
                          "No internet connection"}
     /\ \A t \in SettledCalls :
          (/\ Delivered(t) /\ ~t.res.ok
           /\ Frames(t.stack) \cap {"fs1", "fs2"} # {})
            => notice' # "Progress synced successfully!"]_vars

\* C27: when an upload succeeds and no setter ran during it, the sync
\* metadata has the version of the server's response, a syncedAt and
\* hasLocalChanges = false, in memory and in the metadata a later load from
\* localStorage returns.
C27_MetadataAfterUpload ==
  [][\A t \in SettledCalls :
       (/\ Delivered(t) /\ t.op = "save" /\ t.res.ok
        /\ t.seq = changeSeq /\ isAuthenticated)
         => LET loaded == loadLocalState(storage', now')
            IN /\ state'.meta.version = t.res.row.version
               /\ state'.meta.syncedAt # NullTime
               /\ ~state'.meta.hasLocalChanges
               /\ loaded.meta.version = t.res.row.version
               /\ loaded.meta.syncedAt # NullTime
               /\ ~loaded.meta.hasLocalChanges]_vars

\* in this step the service answers call t, which becomes u
Answered(t, u) ==
  /\ u.stage = "done"
  /\ u = [t EXCEPT !.stage = "done", !.res = u.res]
  /\ CopiesIn(u, tasks') > CopiesIn(u, tasks)

\* C28: uploads are insert-or-update keyed by the user: an upload the service
\* answers while the user's row exists succeeds and replaces the content
\* fields of that row (the model holds one row per user).
C28_UpsertKeyedByUser ==
  [][\A t \in PendingCalls : \A u \in BagToSet(tasks') :
       (Answered(t, u) /\ t.op = "save" /\ remote.exists)
         => (u.res.ok /\ remote'.exists /\ Content(remote') = t.payload)]_vars

C30_TokenRefreshedIsNoOp ==
  [][(\E shown \in BOOLEAN : AuthEventOf("TOKEN_REFRESHED", shown))
       => /\ \A u \in BagToSet(tasks') :
               (u.op \in {"get", "save"} /\ u.stage = "sent")
                 => CopiesIn(u, tasks') <= CopiesIn(u, tasks)
          /\ state' = state
          /\ currentSyncStatus' = currentSyncStatus]_vars

SyncStatuses == {"offline", "syncing", "synced", "error"}

\* C31: getSyncStatus returns one of offline, syncing, synced, error, and it
\* returns offline exactly when no user is authenticated, in every reachable
\* state, those before the first sync included.
C31_SyncStatusRange ==
  LET r == getSyncStatus(isAuthenticated, currentSyncStatus)
  IN /\ r \in SyncStatuses
     /\ (r = "offline") <=> ~isAuthenticated

\* the user signed out after a failed sync: the stored status is error and
\* getSyncStatus answers offline
C31_Witness ==
  /\ ~isAuthenticated
  /\ currentSyncStatus = "error"
  /\ getSyncStatus(isAuthenticated, currentSyncStatus) = "offline"

\* this step opens a migration dialog
OpensDialog ==
  \E u \in BagToSet(tasks') :
    u.op = "dialog" /\ CopiesIn(u, tasks') > CopiesIn(u, tasks)

\* C32: the handling of SIGNED_IN opens the migration dialog only when the
\* local record has a non-default field or a completion flag that is true; a
\* record of default fields whose completion map holds only false entries
\* opens none.
C32_ResolverOnlyWhenMeaningful ==
  [][(\E shown \in BOOLEAN : AuthEventOf("SIGNED_IN", shown))
       => (OpensDialog => Meaningful(state))]_vars

\* how long the page may stay hidden, around the five minutes of
\* handlePageVisible
AwayTimes == {FiveMinutes - 1, FiveMinutes, FiveMinutes + 1}

\* the page is hidden and the user comes back after d milliseconds; timers
\* that came due meanwhile fire afterwards
PageHidden ==
  \E d \in AwayTimes :
    /\ phase = "ready"
    /\ Outside
    /\ now <= MaxTime
    /\ now' = now + d
    /\ UNCHANGED <<phase, state, storage, syncInProgress, pendingChanges,
                   syncTimeout, lastSyncTime, currentSyncStatus,
                   isAuthenticated, isOnline, retryAttempts, notice, timers,
                   tasks, remote, progress_history, histVars>>

NextVisible == Next \/ PageHidden

SpecVisible == Init /\ [][NextVisible]_vars

\* C33: when the page becomes visible while the user is authenticated, a
\* download is started if and only if no sync has happened yet or at least
\* five minutes have passed since the last one; exactly five minutes count
\* as due.
C33_VisibleAfterFiveMinutes ==
  [][(handlePageVisible /\ isAuthenticated)
       => (IssuesGet("sfc")
             <=> (lastSyncTime = NullTime
                    \/ now - lastSyncTime >= FiveMinutes))]_vars

\* the values and the timestamps getMostRecent is applied to
MergeValues == {"", "ON", "BC"}
MergeTimes == {NullTime, OlderRemote, PastLocal, NewerRemote}

\* a local record and a remote row with any of these provinces and
\* timestamps; localStorage holds the local record
InitMostRecent ==
  /\ phase = "created"
  /\ \E lv \in MergeValues, lt \in MergeTimes :
       state = [loadDefaultState(StartTime) EXCEPT
                  !.province = lv, !.meta.lastModified = lt]
  /\ storage = StorageOf(state)
  /\ syncInProgress = FALSE
  /\ pendingChanges = FALSE
  /\ syncTimeout = NullTime
  /\ lastSyncTime = NullTime
  /\ currentSyncStatus = "none"
  /\ isAuthenticated = TRUE
  /\ isOnline = TRUE
  /\ retryAttempts = 0
  /\ notice = "none"
  /\ timers = {}
  /\ tasks = EmptyBag
  /\ \E cv \in MergeValues, ct \in MergeTimes :
       remote = [NoRow EXCEPT !.exists = TRUE, !.province = cv,
                              !.industry = "general", !.hiring = "no",
                              !.revenue = "gte30", !.updated_at = ct,
                              !.version = 1]
  /\ progress_history = <<>>
  /\ now = StartTime
  /\ changeSeq = 0
  /\ lastMutation = NoMutation
  /\ syncedSeq = 0
  /\ anyFailed = FALSE
  /\ mutatedDuringUpload = FALSE
  /\ retriesIssued = 0
  /\ signIn = [content |-> DefaultContent, event |-> 0, choice |-> "none",
               dialog |-> "none"]
  /\ events = 0

\* the province line of mergedData, with the timestamps of both sides passed
\* to getMostRecent; the result is put in the state as the merge does, and
\* localStorage keeps the local value
MergeProvince ==
  /\ phase = "created"
  /\ phase' = "ready"
  /\ state' = [state EXCEPT !.province =
                 getMostRecent(state.province, remote.province,
                               state.meta.lastModified, remote.updated_at)]
  /\ UNCHANGED <<storage, syncInProgress, pendingChanges, syncTimeout,
                 lastSyncTime, currentSyncStatus, isAuthenticated, isOnline,
                 retryAttempts, notice, timers, tasks, remote,
                 progress_history, now, histVars, events>>

SpecMostRecent == InitMostRecent /\ [][MergeProvince]_vars

\* C34: getMostRecent returns a value for every input: with the timestamp of
\* either side missing, the local value if that is not empty and the remote
\* value otherwise; with both timestamps, the local value if the local
\* timestamp is strictly greater and the remote value otherwise.
C34_GetMostRecent ==
  phase = "ready"
    => /\ state.province \in MergeValues
       /\ state.province =
            IF state.meta.lastModified = NullTime
                 \/ remote.updated_at = NullTime
              THEN IF storage.province # "" THEN storage.province
                   ELSE remote.province
              ELSE IF state.meta.lastModified > remote.updated_at
                     THEN storage.province
                     ELSE remote.province

\* equal timestamps and different values: the remote value was taken
C34_Witness ==
  /\ phase = "ready"
  /\ state.meta.lastModified = PastLocal /\ remote.updated_at = PastLocal
  /\ storage.province = "ON" /\ remote.province = "BC"
  /\ state.province = "BC"

\* C35: a download that replaced the local record by the remote row causes
\* no upload by itself: as long as nothing has come from outside (no setter,
\* no other request of the user, no auth event) and the local content is the
\* content of the row, no saveUserProgress call is issued.
C35_DownloadCausesNoUpload ==
  [][(/\ events' = 0
      /\ changeSeq = 0
      /\ remote.exists
      /\ Content(state) = Content(remote))
       => ~IssuesSave]_vars

\* C36: once SIGNED_OUT has been handled, the completion of a download or an
\* upload that was in flight at the sign-out changes neither the local record
\* (content fields and metadata) nor its copy in localStorage.
C36_NoChangeAfterSignOut ==
  [][\A t \in SettledCalls :
       (Delivered(t) /\ ~isAuthenticated /\ t.op \in {"get", "save"})
         => (state' = state /\ storage' = storage)]_vars

\* C37: between events, once the page has loaded, the content fields in
\* localStorage are those of the record in memory, or localStorage is empty
\* and the record in memory is the default record.
C37_StorageMirrorsMemory ==
  phase # "created"
    => \/ /\ storage.present
          /\ [f \in ContentFields |-> storage[f]] = Content(state)
       \/ /\ ~storage.present
          /\ Content(state) = DefaultContent

\* how many of persistLocal's six setItem calls succeed before one throws
FailedWrites == 0 .. 5

\* localStorage st after the first n items of the record s were written, in
\* the order of persistLocal: province, industry, hiring, revenue, completed
ItemsWritten(st, s, n) ==
  [st EXCEPT !.present = st.present \/ n > 0,
             !.province = IF n >= 1 THEN s.province ELSE @,
             !.industry = IF n >= 2 THEN s.industry ELSE @,
             !.hiring = IF n >= 3 THEN s.hiring ELSE @,
             !.revenue = IF n >= 4 THEN s.revenue ELSE @,
             !.completed = IF n >= 5 THEN s.completed ELSE @,
             !.completedParses = IF n >= 5 THEN TRUE ELSE @]

\* persistLocal when setItem throws after n writes: the catch logs the
\* error, and the two statements after the writes are not reached
persistLocalFails(m, n) ==
  LET m1 == [m EXCEPT !.state.meta.lastModified = m.now,
                      !.state.meta.hasLocalChanges = TRUE]
  IN [m1 EXCEPT !.storage = ItemsWritten(m.storage, m1.state, n)]

setProvinceStorageFails ==
  \E v \in Provinces, n \in FailedWrites :
    /\ Mutated("province", "", v)
    /\ Commit(persistLocalFails([M EXCEPT !.state.province = v], n))

setStepCompletedStorageFails ==
  \E key \in StepKeys, completed \in BOOLEAN, n \in FailedWrites :
    /\ Mutated("completed", key, IF completed THEN "true" ELSE "false")
    /\ LET m1 == persistLocalFails([M EXCEPT !.state.completed =
                                      SetKey(state.completed, key, completed)],
                                   n)
       IN Commit(IF completed /\ m1.isAuthenticated
                   THEN scheduleSyncToCloud(m1, TaskDebounce)
                   ELSE m1)

NextStorageFails ==
  \/ Next
  \/ setProvinceStorageFails
  \/ setStepCompletedStorageFails

SpecStorageFails == Init /\ [][NextStorageFails]_vars

\* C38: a setter whose storage write fails returns normally, the record in
\* memory holds the value set, and with a user signed in the change is
\* scheduled for upload: the pending-changes flag is set and a debounce timer
\* is armed.  Stated for a setter called while no remote call and no timer
\* is pending, so that nothing else would carry the change to the service.
C38_StorageFailureStillSyncs ==
  [][((setProvinceStorageFails \/ setStepCompletedStorageFails)
        /\ Quiescent)
       => /\ (MutationHeld(state))'
          /\ isAuthenticated
               => (pendingChanges' /\ \E t \in timers' : t.kind = "debounce")]_vars

\* the saveUserProgress calls not yet returned to syncToCloud
SavesInFlight == {t \in BagToSet(tasks) : t.op = "save"}

\* C39: the upload guard is always released: whenever no saveUserProgress
\* call is in flight, syncInProgress is false, so that the next syncToCloud of
\* a signed-in user passes the guard.
C39_GuardReleased ==
  SavesInFlight = {} => ~syncInProgress

\* the upload a retry timer issued has failed (a successful one would have
\* reset retriesIssued), its handler has run, and the guard is free
C39_Witness ==
  /\ retriesIssued >= 1
  /\ SavesInFlight = {}
  /\ ~syncInProgress
  /\ isAuthenticated
  /\ currentSyncStatus = "error"

\* C40: in every reachable state 0 <= retryAttempts <= maxRetries, whatever
\* the order of sync errors, retry timers, successful syncs and sign-outs.
C40_RetryCounterBounded ==
  retryAttempts \in 0 .. maxRetries

\* the counter is at maxRetries, a retry timer is still pending, and the
\* last sync failed
C40_Witness ==
  /\ retryAttempts = maxRetries
  /\ \E t \in timers : t.kind = "retry"
  /\ currentSyncStatus = "error"
  /\ anyFailed

====
